---------------------------- MODULE Spec2Model ----------------------------
(***************************************************************************)
(* State-machine model of sxm.py: the SiriusXM client (session, channel    *)
(* directory, playlist cache, playlist and segment fetch with their retry  *)
(* paths) behind the single-threaded HTTPServer and its do_GET handler.    *)
(*                                                                         *)
(* Every network call of the client is one action: the state before it is  *)
(* "the request is in flight", the action draws the remote service's       *)
(* answer from a small set and runs the code that follows the call up to   *)
(* the next network call or the end of the inbound request.                *)
(*                                                                         *)
(* The three recursions of the client (get_playlist line 332,              *)
(* get_playlist_url line 270, get_segment line 362) are tail calls: the    *)
(* callee's result is returned unchanged, so a recursive call is a jump to *)
(* the start of the function with new arguments and no stack is kept.  The *)
(* interpreter's recursion limit is not part of the model.                 *)
(*                                                                         *)
(* Only the answers to login and resume set cookies, and no answer removes *)
(* one.  A 200 answer to a media fetch carries a non-empty body.  File     *)
(* operations succeed.                                                     *)
(*                                                                         *)
(* Spec is the whole server.  Its runs keep one cookie per name, with a    *)
(* well-formed value: a cookie restored from the credential file is        *)
(* replaced when the service sets that name again.  The real jar keeps     *)
(* both (they differ in their domain), which changes no "name in cookies"  *)
(* test but makes dict(cookies) and cookies[name] raise.  AuthSpec runs    *)
(* the authentication part of the server on the real jar; PersistSpec,     *)
(* LookupSpec and ExtractSpec put single functions of the client           *)
(* (save_auth_state and load_auth_state step by step, get_channel,         *)
(* get_sxmak_token and get_gup_id) under inputs Spec leaves out.           *)
(***************************************************************************)
EXTENDS Integers, Sequences, FiniteSets, TLC

VARIABLES
    cookies,         \* self.session.cookies: cookie name -> value
    last_auth_time,  \* self.last_auth_time: Nothing (None) or Some(epoch seconds)
    playlists,       \* self.playlists: channel id -> Absent | None | "url"
    channels,        \* self.channels: Nothing (None) or Some(list of channel records)
    auth_file,       \* the file at AUTH_FILE_PATH: Nothing or Some(text)
    auth_mode,       \* its permission bits: "none" (no file), "0600", "0644"
    tmp_file,        \* the file at AUTH_FILE_PATH + '.tmp': Nothing or
                     \* Some([text, mode])
    now,             \* time.time(), in seconds
    loc              \* per inbound connection: handler position and locals

vars ==
    <<cookies, last_auth_time, playlists, channels, auth_file, auth_mode,
      tmp_file, now, loc>>

-----------------------------------------------------------------------------
(* Program constants *)

AUTH_TIMEOUT_MINUTES == 10

DefaultMaxAttempts == 5

SecondsPerMinute == 60

(* Bounds of the model *)

\* number of clock ticks the model lets pass
MaxTicks == 2

\* length of one clock tick, in seconds
TickSeconds == 300

\* observation counters saturate at this value
CountCap == 3

-----------------------------------------------------------------------------
(* Values *)

None == "None"

\* permission bits: os.chmod(AUTH_FILE_PATH, 0o600); what open() gives a new
\* file under the usual umask 022
OwnerOnly == "0600"

UmaskDefault == "0644"

Absent == "Absent"

\* an optional value of another type than string: Nothing, or Some(x)
Nothing == <<>>

Some(x) == <<x>>

Get(o) == o[1]

Requests == {"r1", "r2"}

CookieNames == {"SXMDATA", "AWSALB", "JSESSIONID"}

\* the channel listing the remote service serves
Catalog ==
    << [name |-> "hits", channelId |-> "c1", siriusChannelNumber |-> "2",
        channelGuid |-> "g1"] >>

ChannelIds == {"c1"}

\* channel names a stream client asks for (known, unknown)
Names == {"HITS", "nope"}

\* the second path component of a segment path; NoSlash: a path without '/'
NoSlash == "NoSlash"

SegmentChannels == {"c1", "nope", NoSlash}

\* max_attempts a segment fetch is started with: none, one, the default
SegmentAttempts == {0, 1, DefaultMaxAttempts}

Min(a, b) == IF a < b THEN a ELSE b

Bump(n) == Min(n + 1, CountCap)


-----------------------------------------------------------------------------
(* Pure helpers of the client *)

\* str.lower() on the names the model uses
Lower(s) ==
    CASE s = "HITS" -> "hits"
      [] s = "Hits" -> "hits"
      [] s = "C1" -> "c1"
      [] OTHER -> s

\* A cookie of the jar is kept under its domain and its name.
\* cookies.set(name, value) of load_auth_state gives the cookie no domain;
\* a cookie set by an answer of the service carries the service's domain, so
\* the jar can hold a restored and a fresh cookie of the same name.
NoDomain == ""

ServiceDomain == "siriusxm.com"

\* the value the service's cookies carry in the server's runs
CookieValue == "v"

\* the jar holding the given names, each set by the service
Jar(names) == [k \in {ServiceDomain} \X names |-> CookieValue]

\* requests merges the Set-Cookie headers of every answer into the jar
SetCookies(ck, new) ==
    [k \in DOMAIN ck \cup DOMAIN new |->
        IF k \in DOMAIN new THEN new[k] ELSE ck[k]]

CookiesNamed(ck, n) == {k \in DOMAIN ck : k[2] = n}

\* RequestsCookieJar.__getitem__ raises CookieConflictError on two cookies of
\* the name, and KeyError on none and on one whose value is empty
Conflict(ck, n) == Cardinality(CookiesNamed(ck, n)) > 1

Readable(ck, n) ==
    /\ Cardinality(CookiesNamed(ck, n)) = 1
    /\ \A k \in CookiesNamed(ck, n) : ck[k] /= ""

\* self.session.cookies[n], the name being Readable
Cookie(ck, n) == ck[CHOOSE k \in CookiesNamed(ck, n) : TRUE]

\* "n in self.session.cookies": __contains__ tries self[n], takes KeyError
\* as False and CookieConflictError as True
Contains(ck, n) == Conflict(ck, n) \/ Readable(ck, n)

JarNames(ck) == {k[2] : k \in DOMAIN ck}

\* dict(self.session.cookies): keys() and self[name] for each; Nothing when
\* that raises
jar_dict(ck) ==
    IF \A n \in JarNames(ck) : Readable(ck, n)
    THEN Some([n \in JarNames(ck) |-> Cookie(ck, n)])
    ELSE Nothing

\* the jar with every cookie under the service's domain, for a jar of one
\* cookie per name
OnePerName(ck) ==
    [k \in {ServiceDomain} \X JarNames(ck) |-> Cookie(ck, k[2])]

is_logged_in(ck) == Contains(ck, "SXMDATA")

\* variant: one continuity cookie is taken as enough
is_session_authenticated_either(ck) ==
    Contains(ck, "AWSALB") \/ Contains(ck, "JSESSIONID")

is_session_authenticated(ck) ==
    Contains(ck, "AWSALB") /\ Contains(ck, "JSESSIONID")

\* JSON values as json.dump writes and json.load reads them
JsonNull == <<"null">>

JsonNumber(n) == <<"number", n>>

JsonString(s) == <<"string", s>>

\* json.dump(auth_data, f, indent=2) of save_auth_state, d being
\* dict(self.session.cookies): the text, as the chunks json.dump hands to
\* f.write in order
json_dump(lat, d) ==
    << <<"{">>,
       <<"last_auth_time",
         IF lat = Nothing THEN JsonNull ELSE JsonNumber(Get(lat))>>,
       <<"cookies", [n \in DOMAIN d |-> JsonString(d[n])]>>,
       <<"}">> >>

\* json.load accepts the text only up to its closing brace
Complete(text) == Len(text) > 0 /\ text[Len(text)] = <<"}">>

\* load_auth_state in a client fresh from __init__ (empty jar,
\* last_auth_time None): the session it leaves.  No file: nothing is read;
\* json.load raises: last_auth_time = None; cookies.set(name, None) removes
\* the cookie
load_auth_state(file) ==
    IF file = Nothing \/ ~Complete(Get(file))
    THEN [last_auth_time |-> Nothing, cookies |-> Jar({})]
    ELSE LET lat == Get(file)[2][2]
             d == Get(file)[3][2]
             kept == {n \in DOMAIN d : d[n] /= JsonNull}
         IN  [last_auth_time |->
                  IF lat = JsonNull THEN Nothing ELSE Some(lat[2]),
              cookies |-> [k \in {NoDomain} \X kept |-> d[k[2]][2]]]

\* save_auth_state: the file at AUTH_FILE_PATH once it has returned.
\* dict(self.session.cookies) raising (line 71) is caught by line 85 and
\* nothing is written
save_auth_state(lat, ck, file) ==
    IF jar_dict(ck) = Nothing
    THEN file
    ELSE Some(json_dump(lat, Get(jar_dict(ck))))

\* variant: the window ends only after more than AUTH_TIMEOUT_MINUTES
should_refresh_authentication_late(lat, t) ==
    IF lat = Nothing
    THEN TRUE
    ELSE (t - Get(lat)) > AUTH_TIMEOUT_MINUTES * SecondsPerMinute

\* elapsed_minutes = (time.time() - last_auth_time) / 60.0, compared with
\* AUTH_TIMEOUT_MINUTES; the float division is exact on whole seconds, so
\* elapsed_minutes >= T is (t - lat) >= T * 60
should_refresh_authentication(lat, t) ==
    IF lat = Nothing
    THEN TRUE
    ELSE (t - Get(lat)) >= AUTH_TIMEOUT_MINUTES * SecondsPerMinute

\* the condition under which get() and post() call authenticate() first
needs_authentication(ck, lat, t) ==
    ~is_session_authenticated(ck) \/ should_refresh_authentication(lat, t)

\* variant: the channel's name is compared as it is spelled
ChannelMatches_cased(x, n) ==
    \/ x.name = n
    \/ Lower(x.channelId) = n
    \/ x.siriusChannelNumber = n

\* get_channel line 405, n being name.lower()
ChannelMatches(x, n) ==
    \/ Lower(x.name) = n
    \/ Lower(x.channelId) = n
    \/ x.siriusChannelNumber = n

\* get_channel over an already fetched list: (guid, channelId) of the first
\* match, or (None, None)
get_channel(list, name) ==
    LET n == Lower(name)
        hits == {i \in 1..Len(list) : ChannelMatches(list[i], n)}
    IN  IF hits = {}
        THEN <<None, None>>
        ELSE LET i == CHOOSE k \in hits : \A j \in hits : k <= j
             IN  <<list[i].channelGuid, list[i].channelId>>

\* "if not self.channels": None and the empty list are both falsy
ChannelsLoaded(ch) == ch /= Nothing /\ Get(ch) /= <<>>

-----------------------------------------------------------------------------
(* Handler locals of one inbound connection *)

LocInit ==
    [ pc           |-> "idle",   \* position of the handler
      kind         |-> "none",   \* "m3u8" or "aac": the operation serving it
      name         |-> None,     \* get_playlist's name
      use_cache    |-> TRUE,     \* get_playlist's use_cache
      caller       |-> "none",   \* who called get_playlist: do_GET / get_segment
      seg_channel  |-> None,     \* path.split('/', 2)[1] of the segment path
      seg_attempts |-> 0,        \* get_segment's max_attempts
      url_attempts |-> 0,        \* get_playlist_url's max_attempts
      guid         |-> None,     \* get_playlist's guid
      channel_id   |-> None,     \* get_playlist's channel_id
      api          |-> "none",   \* the get/post in progress
      auth_from    |-> "none",   \* who called authenticate(): get/post or line 268
      outcome      |-> "none",   \* what the stream client got
      why          |-> "none",   \* the failure the core logged
      \* observations of the run so far, not program state
      seg0         |-> 0,        \* max_attempts the segment fetch started with
      segReqs      |-> 0,        \* segment requests sent by this get_segment
      segStatus    |-> 0,        \* status of the last segment response
      variantReqs  |-> 0,        \* variant-playlist requests of this get_playlist
      reauths      |-> 0,        \* authenticate() calls of line 268, this resolution
      only201      |-> FALSE,    \* an uncached resolution whose every now-playing
                                 \* answer was 201/208 and every authenticate() ok
      cache0       |-> Absent,   \* playlists[channel_id] when the resolution began
      file0        |-> Nothing,  \* the file at AUTH_FILE_PATH when
                                 \* save_auth_state began
      auth_ran     |-> FALSE,    \* the current get/post called authenticate()
      auth_ok      |-> "none",   \* what the last authenticate() returned
      auth_resp    |-> Nothing,  \* the answer that ended it
      expired      |-> "no",     \* "expired": last_auth_time was set to None
                                 \* in this request; "resumed": and a resume
                                 \* request has been answered since
      token_result |-> Nothing,  \* outcome of get_sxmak_token(), once called
      gup_result   |-> Nothing ] \* outcome of get_gup_id(), once called

pc(r) == loc[r].pc

Inactive(r) == pc(r) \in {"idle", "queued"}

\* what load_auth_state can find at AUTH_FILE_PATH when the process starts:
\* no file, or the file an earlier run saved
InitialFiles ==
    {Nothing} \cup
    {save_auth_state(lat, Jar(S), Nothing) :
        lat \in {Nothing, Some(0)}, S \in SUBSET CookieNames}

Init ==
    /\ now = 0
    /\ auth_file \in InitialFiles
    /\ auth_mode = IF auth_file = Nothing THEN "none" ELSE OwnerOnly
    /\ tmp_file = Nothing
    /\ cookies = OnePerName(load_auth_state(auth_file).cookies)
    /\ last_auth_time = load_auth_state(auth_file).last_auth_time
    /\ playlists = [c \in ChannelIds |-> Absent]
    /\ channels = Nothing
    /\ loc = [r \in Requests |-> LocInit]


-----------------------------------------------------------------------------
(* The remote service's answers *)

\* a JSON API answer: not JSON at all (or empty), JSON without the keys the
\* code reads, or the ModuleListResponse envelope
EnvelopeBodies == {"nojson", "nokeys", "env"}

\* modify/authentication and resume
AuthResponses ==
    [code : {200, 500}, body : EnvelopeBodies, status : {0, 1},
     set_cookies : SUBSET CookieNames]

\* the ChannelListing module of 'get'
ChannelsResponses ==
    [code : {200, 500}, body : EnvelopeBodies, list : {<<>>, Catalog}]

\* tune/now-playing-live
NowPlayingResponses ==
    [code : {200, 500}, body : EnvelopeBodies, msg_code : {100, 201, 208, 404},
     variants : {"nokeys", "nolarge", "large"}]

\* the master playlist on the live origin
MasterResponses == [code : {200, 403, 500}, has_m3u8 : BOOLEAN]

\* a variant playlist or a segment on the live origin
MediaCodes == {200, 403, 500}

\* get()/post() after the request: None on a non-200 status or undecodable
\* JSON; login(), authenticate(), get_channels and get_playlist_url also take
\* a falsy (empty) JSON value as no data
HasData(resp) == resp.code = 200 /\ resp.body /= "nojson"

-----------------------------------------------------------------------------
(* How a call returns into its caller, followed up to the next network     *)
(* call or the end of the inbound request.  l is loc[r].                    *)

\* an exception nobody catches leaves do_GET: socketserver logs it and closes
\* the connection, the stream client gets no response
Crash(l, why) ==
    [l EXCEPT !.pc = "done", !.outcome = "exception", !.why = why]

\* do_GET lines 416-423 and 426-433: 200 with the data, or 500
Respond(l, ok, why) ==
    [l EXCEPT !.pc = "done", !.outcome = IF ok THEN "200" ELSE "500",
              !.why = why]

\* get_playlist returns: to do_GET, or to get_segment line 361, which drops
\* the result and calls get_segment(path, max_attempts - 1)
PlaylistReturn(l, ok, why) ==
    IF l.caller = "do_GET"
    THEN Respond(l, ok, why)
    ELSE [l EXCEPT !.pc = "segment_fetch", !.seg_attempts = @ - 1,
                   !.name = None, !.use_cache = TRUE, !.caller = "none",
                   !.guid = None, !.channel_id = None, !.url_attempts = 0,
                   !.api = "none",
                   !.auth_from = "none", !.why = "none", !.variantReqs = 0,
                   !.reauths = 0, !.only201 = FALSE, !.cache0 = Absent,
                   !.auth_ran = FALSE, !.auth_ok = "none",
                   !.auth_resp = Nothing]

\* get_playlist_url returns None: get_playlist line 326 passes it to
\* session.get, which raises MissingSchema
UrlFail(l, why) == Crash(l, why)

\* get()/post() returns None: get_channels returns (None, None) and
\* get_channel line 405 raises AttributeError on its first element;
\* get_playlist_url line 251 returns None
ApiFail(l, why) ==
    IF l.api = "channels"
    THEN Crash([l EXCEPT !.only201 = FALSE], why)
    ELSE UrlFail([l EXCEPT !.only201 = FALSE], why)

\* authenticate() line 183: login first unless the identity cookie is there
AuthStart(ck) == IF is_logged_in(ck) THEN "resume_wait" ELSE "login_wait"

\* variant: get()/post() send their request whatever authenticate() returned
AuthReturn_unchecked(l, ok) ==
    IF l.auth_from = "get"
    THEN [l EXCEPT !.pc = "api_wait",
                   !.auth_ok = IF ok THEN "true" ELSE "false"]
    ELSE IF ok THEN [l EXCEPT !.pc = "get_playlist_url", !.url_attempts = @ - 1,
                              !.auth_ok = "true"]
               ELSE UrlFail([l EXCEPT !.only201 = FALSE, !.auth_ok = "false"],
                            "auth_failed")

\* authenticate() returns into get()/post() line 114/131 or into
\* get_playlist_url line 268
AuthReturn(l, ok) ==
    IF l.auth_from = "get"
    THEN IF ok THEN [l EXCEPT !.pc = "api_wait", !.auth_ok = "true"]
               ELSE ApiFail([l EXCEPT !.auth_ok = "false"], "auth_failed")
    ELSE IF ok THEN [l EXCEPT !.pc = "get_playlist_url", !.url_attempts = @ - 1,
                              !.auth_ok = "true"]
               ELSE UrlFail([l EXCEPT !.only201 = FALSE, !.auth_ok = "false"],
                            "auth_failed")

\* get_playlist lines 315-320 once get_channels has a list
Lookup(l, list) ==
    LET gc == get_channel(list, l.name)
    IN  IF gc[1] = None \/ gc[2] = None
        THEN PlaylistReturn(l, FALSE, "no_channel")
        ELSE [l EXCEPT !.pc = "get_playlist_url", !.guid = gc[1],
                       !.channel_id = gc[2],
                       !.url_attempts = DefaultMaxAttempts, !.reauths = 0,
                       !.cache0 = playlists[gc[2]],
                       !.only201 = ~(l.use_cache /\ playlists[gc[2]] /= Absent)]


-----------------------------------------------------------------------------
(* The server loop and the stream clients *)

\* a stream client opens a connection; it waits in the listen queue
Connect(r) ==
    /\ pc(r) = "idle"
    /\ loc' = [loc EXCEPT ![r].pc = "queued"]
    /\ UNCHANGED <<cookies, last_auth_time, playlists, channels, auth_file,
                   auth_mode, tmp_file, now>>

\* variant: a threading server, every connection gets its handler at once
ServerFree_threading(r) == TRUE

\* HTTPServer.serve_forever handles one connection at a time: the next one
\* is accepted only after the handler of the previous one has returned and
\* the connection is shut down
ServerFree(r) == \A q \in Requests \ {r} : Inactive(q)

\* do_GET, '.m3u8' branch: sxm.get_playlist(name) with use_cache=True
do_GET_playlist(r) ==
    /\ pc(r) = "queued"
    /\ ServerFree(r)
    /\ \E n \in Names :
         loc' = [loc EXCEPT ![r] =
                   [LocInit EXCEPT !.pc = "get_playlist", !.kind = "m3u8",
                                   !.name = n, !.use_cache = TRUE,
                                   !.caller = "do_GET"]]
    /\ UNCHANGED <<cookies, last_auth_time, playlists, channels, auth_file,
                   auth_mode, tmp_file, now>>

\* do_GET, '.aac' branch: sxm.get_segment(path); max_attempts defaults to 5,
\* a direct call of get_segment may pass any smaller value
do_GET_segment(r) ==
    /\ pc(r) = "queued"
    /\ ServerFree(r)
    /\ \E c \in SegmentChannels, m \in SegmentAttempts :
         loc' = [loc EXCEPT ![r] =
                   [LocInit EXCEPT !.pc = "segment_fetch", !.kind = "aac",
                                   !.seg_channel = c, !.seg_attempts = m,
                                   !.seg0 = m]]
    /\ UNCHANGED <<cookies, last_auth_time, playlists, channels, auth_file,
                   auth_mode, tmp_file, now>>

\* do_GET, '/key/1' branch (200 with the key) and the else branch (500)
do_GET_other(r) ==
    /\ pc(r) = "queued"
    /\ ServerFree(r)
    /\ \E k \in {"key", "other"} :
         loc' = [loc EXCEPT ![r] =
                   [LocInit EXCEPT !.pc = "done", !.kind = k,
                                   !.outcome = IF k = "key" THEN "200" ELSE "500"]]
    /\ UNCHANGED <<cookies, last_auth_time, playlists, channels, auth_file,
                   auth_mode, tmp_file, now>>

\* the handler has returned (or raised): the connection is shut down
Finish(r) ==
    /\ pc(r) = "done"
    /\ loc' = [loc EXCEPT ![r] = LocInit]
    /\ UNCHANGED <<cookies, last_auth_time, playlists, channels, auth_file,
                   auth_mode, tmp_file, now>>

\* time passes
Tick ==
    /\ now + TickSeconds <= MaxTicks * TickSeconds
    /\ now' = now + TickSeconds
    /\ UNCHANGED <<cookies, last_auth_time, playlists, channels, auth_file,
                   auth_mode, tmp_file, loc>>

-----------------------------------------------------------------------------
(* The client: SiriusXM *)

\* get_playlist lines 315-320, get_channel, get_channels line 375
get_playlist(r) ==
    /\ pc(r) = "get_playlist"
    /\ loc' = [loc EXCEPT ![r] =
                 IF ChannelsLoaded(channels)
                 THEN Lookup(@, Get(channels))
                 ELSE [@ EXCEPT !.pc = "ensure", !.api = "channels",
                                !.auth_ran = FALSE, !.auth_ok = "none"]]
    /\ UNCHANGED <<cookies, last_auth_time, playlists, channels, auth_file,
                   auth_mode, tmp_file, now>>

\* get() line 113 and post() line 130 with authenticate=True
ensure_authenticated(r) ==
    /\ pc(r) = "ensure"
    /\ loc' = [loc EXCEPT ![r] =
                 IF needs_authentication(cookies, last_auth_time, now)
                 THEN [@ EXCEPT !.pc = AuthStart(cookies), !.auth_from = "get",
                                !.auth_ran = TRUE]
                 ELSE [@ EXCEPT !.pc = "api_wait"]]
    /\ UNCHANGED <<cookies, last_auth_time, playlists, channels, auth_file,
                   auth_mode, tmp_file, now>>

\* what is kept of an answer to login or resume for the properties: the
\* request, and "nodata" (not 200, or no JSON), "malformed" (JSON without
\* the envelope), or the status flag of the envelope
Answer(request, resp) ==
    Some(<<request,
           IF resp.code /= 200 \/ resp.body = "nojson" THEN "nodata"
           ELSE IF resp.body = "nokeys" THEN "malformed"
           ELSE IF resp.status = 1 THEN "flag1" ELSE "flag0">>)

\* variant: login() returns what the status flag says, whatever the jar
login_ok_flag_only(resp, ck) ==
    HasData(resp) /\ resp.body = "env" /\ resp.status = 1

\* login(): the answer to post('modify/authentication'), then
\* authenticate() lines 183-185
login_ok(resp, ck) ==
    HasData(resp) /\ resp.body = "env" /\ resp.status = 1 /\ is_logged_in(ck)

login(r) ==
    /\ pc(r) = "login_wait"
    /\ \E resp \in AuthResponses :
         LET ck == SetCookies(cookies, Jar(resp.set_cookies))
         IN  /\ cookies' = ck
             /\ loc' = [loc EXCEPT ![r] =
                          IF login_ok(resp, ck)
                          THEN [@ EXCEPT !.pc = "resume_wait"]
                          ELSE AuthReturn([@ EXCEPT !.auth_resp =
                                             Answer("login", resp)], FALSE)]
    /\ UNCHANGED <<last_auth_time, playlists, channels, auth_file,
                   auth_mode, tmp_file, now>>

\* authenticate() lines 208-221: the answer to post('resume?OAtrial=false')
authenticate_ok(resp, ck) ==
    HasData(resp) /\ resp.body = "env" /\ resp.status = 1
    /\ is_session_authenticated(ck)

authenticate(r) ==
    /\ pc(r) = "resume_wait"
    /\ \E resp \in AuthResponses :
         LET ck == SetCookies(cookies, Jar(resp.set_cookies))
             ok == authenticate_ok(resp, ck)
         IN  /\ cookies' = ck
             /\ last_auth_time' = IF ok THEN Some(now) ELSE last_auth_time
             /\ auth_file' = IF ok
                               THEN save_auth_state(Some(now), ck, auth_file)
                               ELSE auth_file
             /\ auth_mode' = IF ok /\ jar_dict(ck) /= Nothing
                               THEN OwnerOnly ELSE auth_mode
             /\ loc' = [loc EXCEPT ![r] =
                          AuthReturn([@ EXCEPT
                                        !.auth_resp = Answer("resume", resp),
                                        !.expired = IF @ = "expired"
                                                    THEN "resumed" ELSE @],
                                     ok)]
    /\ UNCHANGED <<playlists, channels, tmp_file, now>>

\* get_channels lines 390-400 on the answer to post('get'), then get_channel
\* and get_playlist lines 316-320
get_channels(r) ==
    /\ pc(r) = "api_wait"
    /\ loc[r].api = "channels"
    /\ \E resp \in ChannelsResponses :
         IF ~HasData(resp)
         THEN /\ loc' = [loc EXCEPT ![r] = ApiFail(@, "channels_failed")]
              /\ UNCHANGED channels
         ELSE IF resp.body = "nokeys"
         THEN /\ loc' = [loc EXCEPT ![r] = Lookup(@, <<>>)]
              /\ UNCHANGED channels
         ELSE /\ channels' = Some(resp.list)
              /\ loc' = [loc EXCEPT ![r] = Lookup(@, resp.list)]
    /\ UNCHANGED <<cookies, last_auth_time, playlists, auth_file,
                   auth_mode, tmp_file, now>>

\* get_playlist_url lines 236-249 and get_playlist lines 320-326 on a cache hit
get_playlist_url(r) ==
    /\ pc(r) = "get_playlist_url"
    /\ loc' = [loc EXCEPT ![r] =
                 IF @.use_cache /\ playlists[@.channel_id] /= Absent
                 THEN IF playlists[@.channel_id] = None
                      THEN UrlFail(@, "cached_none")
                      ELSE [@ EXCEPT !.pc = "variant_fetch"]
                 ELSE [@ EXCEPT !.pc = "ensure", !.api = "nowplaying",
                                !.auth_ran = FALSE, !.auth_ok = "none"]]
    /\ UNCHANGED <<cookies, last_auth_time, playlists, channels, auth_file,
                   auth_mode, tmp_file, now>>

\* variant: the resolution retries once more, at max_attempts = 0
url_may_retry_once_more(max_attempts) == max_attempts >= 0

\* get_playlist_url line 264: may the resolution re-authenticate and retry
url_may_retry(max_attempts) == max_attempts > 0

\* get_playlist_url lines 250-293 on the answer to get('tune/now-playing-live')
now_playing(r) ==
    /\ pc(r) = "api_wait"
    /\ loc[r].api = "nowplaying"
    /\ \E resp \in NowPlayingResponses :
         IF ~HasData(resp)
         THEN /\ loc' = [loc EXCEPT ![r] = ApiFail(@, "api_failed")]
              /\ UNCHANGED last_auth_time
         ELSE IF resp.body = "nokeys"
         THEN /\ loc' = [loc EXCEPT ![r] = ApiFail(@, "malformed")]
              /\ UNCHANGED last_auth_time
         ELSE IF resp.msg_code = 201 \/ resp.msg_code = 208
         THEN IF url_may_retry(loc[r].url_attempts)
              THEN /\ last_auth_time' = Nothing
                   /\ loc' = [loc EXCEPT ![r] =
                                [@ EXCEPT !.pc = AuthStart(cookies),
                                          !.auth_from = "expiry",
                                          !.reauths = @ + 1,
                                          !.expired = "expired"]]
              ELSE /\ loc' = [loc EXCEPT ![r] = UrlFail(@, "max_attempts")]
                   /\ UNCHANGED last_auth_time
         ELSE IF resp.msg_code /= 100
         THEN /\ loc' = [loc EXCEPT ![r] = ApiFail(@, "fatal_code")]
              /\ UNCHANGED last_auth_time
         ELSE /\ loc' = [loc EXCEPT ![r] =
                           CASE resp.variants = "nokeys" -> ApiFail(@, "malformed")
                             [] resp.variants = "nolarge" -> ApiFail(@, "no_large")
                             [] OTHER -> [@ EXCEPT !.pc = "master_fetch",
                                                   !.only201 = FALSE]]
              /\ UNCHANGED last_auth_time
    /\ UNCHANGED <<cookies, playlists, channels, auth_file,
                   auth_mode, tmp_file, now>>

\* get_playlist_variant_url lines 301-312 on the answer to the master
\* playlist fetch, and get_playlist_url lines 290-291
get_playlist_variant_url(r) ==
    /\ pc(r) = "master_fetch"
    /\ \E resp \in MasterResponses :
         LET res == IF resp.code = 200 /\ resp.has_m3u8 THEN "url" ELSE None
         IN  /\ playlists' = [playlists EXCEPT ![loc[r].channel_id] = res]
             /\ loc' = [loc EXCEPT ![r] =
                          IF res = None
                          THEN UrlFail(@, "master_failed")
                          ELSE [@ EXCEPT !.pc = "variant_fetch"]]
    /\ UNCHANGED <<cookies, last_auth_time, channels, auth_file,
                   auth_mode, tmp_file, now>>

\* get_playlist lines 326-345 on the answer to the variant playlist fetch
get_playlist_fetch(r) ==
    /\ pc(r) = "variant_fetch"
    /\ \E code \in MediaCodes :
         LET l == [loc[r] EXCEPT !.variantReqs = Bump(@)]
         IN  IF code = 403
             THEN /\ last_auth_time' = Nothing
                  /\ loc' = [loc EXCEPT ![r] =
                               [l EXCEPT !.pc = "get_playlist",
                                         !.use_cache = FALSE,
                                         !.expired = "expired"]]
             ELSE /\ UNCHANGED last_auth_time
                  /\ loc' = [loc EXCEPT ![r] =
                               IF code = 200
                               THEN PlaylistReturn(l, TRUE, "none")
                               ELSE PlaylistReturn(l, FALSE, "media_non200")]
    /\ UNCHANGED <<cookies, playlists, channels, auth_file,
                   auth_mode, tmp_file, now>>

\* get_segment line 357: may the segment fetch re-authenticate and retry
segment_may_retry(max_attempts) == max_attempts > 0

\* get_segment lines 354-371 on the answer to the segment fetch
get_segment(r) ==
    /\ pc(r) = "segment_fetch"
    /\ \E code \in MediaCodes :
         LET l == [loc[r] EXCEPT !.segReqs = @ + 1, !.segStatus = code]
         IN  IF code = 403 /\ segment_may_retry(l.seg_attempts)
             THEN /\ last_auth_time' = Nothing
                  /\ loc' = [loc EXCEPT ![r] =
                               IF l.seg_channel = NoSlash
                               THEN Crash([l EXCEPT !.expired = "expired"],
                                          "bad_path")
                               ELSE [l EXCEPT !.pc = "get_playlist",
                                              !.name = l.seg_channel,
                                              !.use_cache = FALSE,
                                              !.caller = "get_segment",
                                              !.expired = "expired"]]
             ELSE /\ UNCHANGED last_auth_time
                  /\ loc' = [loc EXCEPT ![r] =
                               CASE code = 200 -> Respond(l, TRUE, "none")
                                 [] code = 403 -> Respond(l, FALSE, "seg_max_attempts")
                                 [] OTHER -> Respond(l, FALSE, "media_non200")]
    /\ UNCHANGED <<cookies, playlists, channels, auth_file,
                   auth_mode, tmp_file, now>>

-----------------------------------------------------------------------------

\* one step of the server on connection r
ServerStep(r) ==
    \/ do_GET_playlist(r)
    \/ do_GET_segment(r)
    \/ do_GET_other(r)
    \/ get_playlist(r)
    \/ ensure_authenticated(r)
    \/ login(r)
    \/ authenticate(r)
    \/ get_channels(r)
    \/ get_playlist_url(r)
    \/ now_playing(r)
    \/ get_playlist_variant_url(r)
    \/ get_playlist_fetch(r)
    \/ get_segment(r)
    \/ Finish(r)

Next ==
    \/ \E r \in Requests : Connect(r)
    \/ \E r \in Requests : ServerStep(r)
    \/ Tick

Spec == Init /\ [][Next]_vars

\* the server thread keeps running: a handler that can take a step takes it,
\* and every network call returns with some answer
FairSpec == Spec /\ WF_vars(\E r \in Requests : ServerStep(r))


-----------------------------------------------------------------------------
(* The authentication part of the server on the real jar: playlist         *)
(* requests for a channel the directory does not list, which authenticate, *)
(* fetch the directory and end as not found                                *)

\* __init__: load_auth_state puts the saved cookies into the jar as they
\* are, without a domain
AuthInit ==
    /\ now = 0
    /\ auth_file \in InitialFiles
    /\ auth_mode = IF auth_file = Nothing THEN "none" ELSE OwnerOnly
    /\ tmp_file = Nothing
    /\ cookies = load_auth_state(auth_file).cookies
    /\ last_auth_time = load_auth_state(auth_file).last_auth_time
    /\ playlists = [c \in ChannelIds |-> Absent]
    /\ channels = Nothing
    /\ loc = [r \in Requests |-> LocInit]

\* do_GET, '.m3u8' branch, for the name no channel has
do_GET_unlisted(r) ==
    /\ pc(r) = "queued"
    /\ ServerFree(r)
    /\ loc' = [loc EXCEPT ![r] =
                 [LocInit EXCEPT !.pc = "get_playlist", !.kind = "m3u8",
                                 !.name = "nope", !.use_cache = TRUE,
                                 !.caller = "do_GET"]]
    /\ UNCHANGED <<cookies, last_auth_time, playlists, channels, auth_file,
                   auth_mode, tmp_file, now>>

AuthNext ==
    \/ \E r \in Requests : Connect(r)
    \/ \E r \in Requests : do_GET_unlisted(r)
    \/ \E r \in Requests : get_playlist(r)
    \/ \E r \in Requests : ensure_authenticated(r)
    \/ \E r \in Requests : login(r)
    \/ \E r \in Requests : authenticate(r)
    \/ \E r \in Requests : get_channels(r)
    \/ \E r \in Requests : Finish(r)
    \/ Tick

AuthSpec == AuthInit /\ [][AuthNext]_vars

-----------------------------------------------------------------------------
(* get_channel on its own: lookups against a cached channel directory *)

\* longest directory the lookups run against
MaxCatalog == 2

\* directory entries: names and ids in mixed case, station numbers in digits
LookupChannels ==
    [name : {"Hits", "2"}, channelId : {"C1", "hits"},
     siriusChannelNumber : {"2", "3"}, channelGuid : {"g1", "g2"}]

Catalogs == UNION {[1..n -> LookupChannels] : n \in 0..MaxCatalog}

\* the names a stream client asks for
LookupKeys == {"hits", "HITS", "Hits", "c1", "C1", "2", "3", "nope"}

\* the directory is in self.channels, get_channels returns it as it is
LookupInit ==
    /\ channels \in {Some(c) : c \in Catalogs}
    /\ cookies = Jar({})
    /\ last_auth_time = Nothing
    /\ playlists = [c \in ChannelIds |-> Absent]
    /\ auth_file = Nothing
    /\ auth_mode = "none"
    /\ tmp_file = Nothing
    /\ now = 0
    /\ loc = [r \in Requests |-> LocInit]

\* guid, channel_id = self.get_channel(name), get_playlist line 315
lookup(r) ==
    /\ pc(r) = "idle"
    /\ \E key \in LookupKeys :
         LET gc == get_channel(Get(channels), key)
         IN  loc' = [loc EXCEPT ![r] =
                       [@ EXCEPT !.pc = "looked_up", !.name = key,
                                 !.guid = gc[1], !.channel_id = gc[2]]]
    /\ UNCHANGED <<cookies, last_auth_time, playlists, channels, auth_file,
                   auth_mode, tmp_file, now>>

LookupNext == \E r \in Requests : lookup(r)

LookupSpec == LookupInit /\ [][LookupNext]_vars

-----------------------------------------------------------------------------
(* save_auth_state step by step, and load_auth_state in a new process *)

\* the sessions that are saved: cookies restored from a file, a cookie the
\* service has set since, values that differ and an empty one
CookieValues == {CookieValue, "w", ""}

JarKeys == ({NoDomain} \X CookieNames) \cup {<<ServiceDomain, "AWSALB">>}

Jars == UNION {[S -> CookieValues] : S \in SUBSET JarKeys}

SavePcs == {"save_write", "save_rename", "save_chmod"}

\* what an earlier run can have left: nothing, a saved file, and a temp file
\* cut short when that run was killed inside save_auth_state
PersistInit ==
    /\ cookies \in Jars
    /\ last_auth_time \in {Nothing, Some(0), Some(TickSeconds)}
    /\ auth_file \in
         {Nothing, save_auth_state(Some(0), Jar({"SXMDATA"}), Nothing)}
    /\ auth_mode = IF auth_file = Nothing THEN "none" ELSE OwnerOnly
    /\ tmp_file \in
         {Nothing,
          Some([text |-> SubSeq(json_dump(Nothing, <<>>), 1, 1),
                mode |-> UmaskDefault])}
    /\ playlists = [c \in ChannelIds |-> Absent]
    /\ channels = Nothing
    /\ now = 0
    /\ loc = [r \in Requests |-> LocInit]

\* save_auth_state lines 67-75: auth_data is built (dict() raising ends the
\* call in the except clause), the directory is there, open(temp_path, 'w')
\* creates the temp file with the mode the umask leaves or truncates the one
\* that is there
save_open(r) ==
    /\ pc(r) \in {"idle", "loaded", "recovered"}
    /\ ServerFree(r)
    /\ IF jar_dict(cookies) = Nothing
       THEN /\ loc' = [loc EXCEPT ![r] =
                        [LocInit EXCEPT !.pc = "saved", !.file0 = auth_file]]
            /\ UNCHANGED tmp_file
       ELSE /\ \E m \in {OwnerOnly, UmaskDefault} :
                 tmp_file' = Some([text |-> <<>>,
                                   mode |-> IF tmp_file = Nothing THEN m
                                            ELSE Get(tmp_file).mode])
            /\ loc' = [loc EXCEPT ![r] =
                        [LocInit EXCEPT !.pc = "save_write",
                                        !.file0 = auth_file]]
    /\ UNCHANGED <<cookies, last_auth_time, playlists, channels, auth_file,
                   auth_mode, now>>

\* variant: the record is written to AUTH_FILE_PATH itself
save_write_in_place(r) ==
    /\ pc(r) = "save_write"
    /\ LET full == json_dump(last_auth_time, Get(jar_dict(cookies)))
           text == Append(Get(tmp_file).text,
                          full[Len(Get(tmp_file).text) + 1])
       IN  /\ tmp_file' = Some([Get(tmp_file) EXCEPT !.text = text])
           /\ auth_file' = Some(text)
           /\ loc' = [loc EXCEPT ![r].pc =
                        IF text = full THEN "save_rename" ELSE "save_write"]
    /\ UNCHANGED <<cookies, last_auth_time, playlists, channels, auth_mode,
                   now>>

\* line 76: the next chunk of json.dump reaches the temp file; after the
\* last one the with-block closes it
save_write(r) ==
    /\ pc(r) = "save_write"
    /\ LET full == json_dump(last_auth_time, Get(jar_dict(cookies)))
           text == Append(Get(tmp_file).text,
                          full[Len(Get(tmp_file).text) + 1])
       IN  /\ tmp_file' = Some([Get(tmp_file) EXCEPT !.text = text])
           /\ loc' = [loc EXCEPT ![r].pc =
                        IF text = full THEN "save_rename" ELSE "save_write"]
    /\ UNCHANGED <<cookies, last_auth_time, playlists, channels, auth_file,
                   auth_mode, now>>

\* line 79: os.rename(temp_path, AUTH_FILE_PATH) puts the temp file, with
\* its mode, in the place of the credential file in one step
save_rename(r) ==
    /\ pc(r) = "save_rename"
    /\ auth_file' = Some(Get(tmp_file).text)
    /\ auth_mode' = Get(tmp_file).mode
    /\ tmp_file' = Nothing
    /\ loc' = [loc EXCEPT ![r].pc = "save_chmod"]
    /\ UNCHANGED <<cookies, last_auth_time, playlists, channels, now>>

\* line 82: os.chmod(AUTH_FILE_PATH, 0o600)
save_chmod(r) ==
    /\ pc(r) = "save_chmod"
    /\ auth_mode' = OwnerOnly
    /\ loc' = [loc EXCEPT ![r].pc = "saved"]
    /\ UNCHANGED <<cookies, last_auth_time, playlists, channels, auth_file,
                   tmp_file, now>>

\* the process ends, at any point, and a new one starts: __init__ runs
\* load_auth_state on what is at AUTH_FILE_PATH.  "loaded" after a save that
\* had returned, "recovered" otherwise
restart(r) ==
    /\ pc(r) \in SavePcs \cup {"saved"}
    /\ cookies' = load_auth_state(auth_file).cookies
    /\ last_auth_time' = load_auth_state(auth_file).last_auth_time
    /\ loc' = [loc EXCEPT ![r] =
                 [LocInit EXCEPT !.pc = IF pc(r) = "saved" THEN "loaded"
                                        ELSE "recovered"]]
    /\ UNCHANGED <<playlists, channels, auth_file, auth_mode, tmp_file, now>>

PersistNext ==
    \E r \in Requests :
      \/ save_open(r)
      \/ save_write(r)
      \/ save_rename(r)
      \/ save_chmod(r)
      \/ restart(r)

PersistSpec == PersistInit /\ [][PersistNext]_vars

(***************************************************************************)
(* ExtractSpec: get_sxmak_token() and get_gup_id() (lines 223-233) on jars *)
(* whose SXMAKTOKEN and SXMDATA cookies are absent, empty, malformed,      *)
(* well formed, or present twice.  A cookie value is a string; Chars gives *)
(* the sequence of its lexical elements, on which split, unquote and the   *)
(* JSON parser work.                                                       *)
(***************************************************************************)

Quote == "\""

\* the values the SXMAKTOKEN cookie takes
TokenValues == {"", "abc", "k=", "k=tok", "k=tok,rest", "a=b=c,d"}

\* the values the SXMDATA cookie takes
DataValues ==
    {"", "abc", "1", "null", "%22s%22", "%5B1%5D", "%7B%7D",
     "%7B%22gupId%22%3Anull%7D", "%7B%22gupId%22%3A%22g%22%7D"}

\* a cookie value as the sequence of its elements
Chars(v) ==
    CASE v = ""        -> <<>>
      [] v = "abc"     -> <<"abc">>
      [] v = "k="      -> <<"k", "=">>
      [] v = "k=tok"   -> <<"k", "=", "tok">>
      [] v = "k=tok,rest" -> <<"k", "=", "tok", ",", "rest">>
      [] v = "a=b=c,d" -> <<"a", "=", "b", "=", "c", ",", "d">>
      [] v = "1"       -> <<"1">>
      [] v = "null"    -> <<"null">>
      [] v = "%22s%22" -> <<"%22", "s", "%22">>
      [] v = "%5B1%5D" -> <<"%5B", "1", "%5D">>
      [] v = "%7B%7D"  -> <<"%7B", "%7D">>
      [] v = "%7B%22gupId%22%3Anull%7D" ->
             <<"%7B", "%22", "gupId", "%22", "%3A", "null", "%7D">>
      [] v = "%7B%22gupId%22%3A%22g%22%7D" ->
             <<"%7B", "%22", "gupId", "%22", "%3A", "%22", "g", "%22", "%7D">>

\* position of the first sep in t, 0 when there is none
IndexOf(t, sep) ==
    IF \E i \in 1..Len(t) : t[i] = sep
    THEN CHOOSE i \in 1..Len(t) :
           t[i] = sep /\ \A j \in 1..(i - 1) : t[j] /= sep
    ELSE 0

\* str.split(sep, 1): one part without sep, else what is before and after
\* the first sep
split1(t, sep) ==
    LET i == IndexOf(t, sep)
    IN  IF i = 0 THEN <<t>>
        ELSE <<SubSeq(t, 1, i - 1), SubSeq(t, i + 1, Len(t))>>

\* urllib.parse.unquote of one element
Decode(x) ==
    CASE x = "%22" -> Quote
      [] x = "%3A" -> ":"
      [] x = "%5B" -> "["
      [] x = "%5D" -> "]"
      [] x = "%7B" -> "{"
      [] x = "%7D" -> "}"
      [] OTHER     -> x

\* urllib.parse.unquote
unquote(t) == [i \in 1..Len(t) |-> Decode(t[i])]

JsonArray(elems) == <<"array", elems>>

JsonObject(members) == <<"object", members>>

\* json.loads of null, a digit or a quoted string; Nothing otherwise
json_scalar(t) ==
    IF Len(t) = 1 /\ t[1] = "null" THEN Some(JsonNull)
    ELSE IF Len(t) = 1 /\ t[1] = "1" THEN Some(JsonNumber(1))
    ELSE IF Len(t) = 3 /\ t[1] = Quote /\ t[3] = Quote /\ t[2] /= Quote
         THEN Some(JsonString(t[2]))
    ELSE Nothing

\* json.loads: the parsed document, Nothing for JSONDecodeError (a ValueError)
json_loads(t) ==
    IF json_scalar(t) /= Nothing THEN json_scalar(t)
    ELSE IF Len(t) >= 2 /\ t[1] = "[" /\ t[Len(t)] = "]"
    THEN LET inner == SubSeq(t, 2, Len(t) - 1)
         IN  IF Len(inner) = 0 THEN Some(JsonArray(<<>>))
             ELSE IF json_scalar(inner) /= Nothing
                  THEN Some(JsonArray(<<Get(json_scalar(inner))>>))
             ELSE Nothing
    ELSE IF Len(t) >= 2 /\ t[1] = "{" /\ t[Len(t)] = "}"
    THEN LET inner == SubSeq(t, 2, Len(t) - 1)
         IN  IF Len(inner) = 0 THEN Some(JsonObject([n \in {} |-> JsonNull]))
             ELSE IF /\ Len(inner) >= 5
                     /\ inner[1] = Quote /\ inner[3] = Quote /\ inner[4] = ":"
                     /\ json_scalar(SubSeq(inner, 5, Len(inner))) /= Nothing
                  THEN Some(JsonObject(
                         [n \in {inner[2]} |->
                            Get(json_scalar(SubSeq(inner, 5, Len(inner))))]))
             ELSE Nothing
    ELSE Nothing

\* a call that returned x (Nothing is Python's None)
Returned(x) == <<"return", x>>

\* a call that let the exception e escape
Raised(e) == <<"raise", e>>

\* get_gup_id, lines 229-233: KeyError and ValueError become None
get_gup_id(ck) ==
    IF Conflict(ck, "SXMDATA") THEN Raised("CookieConflictError")
    ELSE IF ~Readable(ck, "SXMDATA") THEN Returned(Nothing)      \* KeyError
    ELSE LET doc == json_loads(unquote(Chars(Cookie(ck, "SXMDATA"))))
         IN  IF doc = Nothing THEN Returned(Nothing)            \* ValueError
             ELSE IF Get(doc)[1] /= "object" THEN Raised("TypeError")
             ELSE IF "gupId" \notin DOMAIN Get(doc)[2]
             THEN Returned(Nothing)                             \* KeyError
             ELSE IF Get(doc)[2]["gupId"] = JsonNull THEN Returned(Nothing)
             ELSE Returned(Some(Get(doc)[2]["gupId"][2]))

\* get_sxmak_token, lines 223-227: KeyError and IndexError become None
get_sxmak_token(ck) ==
    IF Conflict(ck, "SXMAKTOKEN") THEN Raised("CookieConflictError")
    ELSE IF ~Readable(ck, "SXMAKTOKEN") THEN Returned(Nothing)   \* KeyError
    ELSE LET parts == split1(Chars(Cookie(ck, "SXMAKTOKEN")), "=")
         IN  IF Len(parts) < 2 THEN Returned(Nothing)           \* IndexError
             ELSE Returned(Some(split1(parts[2], ",")[1]))

ExtractNames == {"SXMAKTOKEN", "SXMDATA"}

\* the values a cookie can have: any value when restored from the state file,
\* a well-formed one when set by the service
ExtractValues(k) ==
    IF k[1] = ServiceDomain
    THEN IF k[2] = "SXMAKTOKEN" THEN {"k=tok,rest"}
         ELSE {"%7B%22gupId%22%3A%22g%22%7D"}
    ELSE IF k[2] = "SXMAKTOKEN" THEN TokenValues ELSE DataValues

ExtractJars ==
    UNION {{ck \in [K -> TokenValues \cup DataValues] :
              \A k \in K : ck[k] \in ExtractValues(k)} :
           K \in SUBSET ({NoDomain, ServiceDomain} \X ExtractNames)}

ExtractInit ==
    /\ cookies \in ExtractJars
    /\ last_auth_time = Nothing
    /\ playlists = [c \in ChannelIds |-> Absent]
    /\ channels = Nothing
    /\ auth_file = Nothing
    /\ auth_mode = "none"
    /\ tmp_file = Nothing
    /\ now = 0
    /\ loc = [r \in Requests |-> LocInit]

\* 'token': self.get_sxmak_token(), lines 297, 322, 350
call_get_sxmak_token(r) ==
    /\ loc[r].token_result = Nothing
    /\ loc' = [loc EXCEPT ![r] =
                 [@ EXCEPT !.token_result = Some(get_sxmak_token(cookies))]]
    /\ UNCHANGED <<cookies, last_auth_time, playlists, channels, auth_file,
                   auth_mode, tmp_file, now>>

\* 'gupId': self.get_gup_id(), lines 299, 324, 352
call_get_gup_id(r) ==
    /\ loc[r].gup_result = Nothing
    /\ loc' = [loc EXCEPT ![r] =
                 [@ EXCEPT !.gup_result = Some(get_gup_id(cookies))]]
    /\ UNCHANGED <<cookies, last_auth_time, playlists, channels, auth_file,
                   auth_mode, tmp_file, now>>

ExtractNext ==
    \E r \in Requests : call_get_sxmak_token(r) \/ call_get_gup_id(r)

ExtractSpec == ExtractInit /\ [][ExtractNext]_vars

-----------------------------------------------------------------------------
(* Properties *)

Window == AUTH_TIMEOUT_MINUTES * SecondsPerMinute

ContinuityCookies == {"AWSALB", "JSESSIONID"}

AuthWait == {"login_wait", "resume_wait"}

Handled(r) == ~Inactive(r)

\* C1: within one fetchPlaylist invocation the variant playlist is requested
\* at most twice (the first fetch and the single retry after a 403), also
\* when every variant-playlist fetch is answered with 403.
C1_SingleRetry ==
    \A r \in Requests : loc[r].variantReqs <= 2

\* C2: every inbound request that the server has started to handle
\* eventually ends, whatever the remote service answers.
C2_EveryRequestEnds ==
    \A r \in Requests : (Handled(r) /\ pc(r) /= "done") ~> (pc(r) = "done")

\* the resolution of a variant URL is past its cache check
Resolving(l) ==
    \/ l.pc \in {"get_playlist_url", "master_fetch"}
    \/ l.pc \in {"ensure", "api_wait"} \cup AuthWait /\ l.api = "nowplaying"

\* authenticate() of line 268 is running, the recursive call not yet made
RetryPending(l) == l.pc \in AuthWait /\ l.auth_from = "expiry"

\* C3: an uncached resolveVariant re-authenticates on 201/208 at most
\* maxAttempts times: the re-authentications made and the attempts left
\* always add up to maxAttempts; when every now-playing answer was 201/208
\* and every authentication succeeded, the resolution ends after exactly
\* maxAttempts re-authentications, in failure, with the cache entry untouched.
C3_BoundedReauth ==
    \A r \in Requests :
      LET l == loc[r]
      IN  /\ l.reauths <= DefaultMaxAttempts
          /\ Resolving(l) =>
               l.reauths + l.url_attempts
                 = DefaultMaxAttempts + (IF RetryPending(l) THEN 1 ELSE 0)
          /\ (l.pc = "done" /\ l.only201) =>
               /\ l.why = "max_attempts"
               /\ l.reauths = DefaultMaxAttempts
               /\ l.outcome /= "200"
               /\ playlists[l.channel_id] = l.cache0
          /\ l.why = "max_attempts" => l.only201

C3_Witness ==
    \E r \in Requests :
      /\ pc(r) = "done"
      /\ loc[r].only201
      /\ loc[r].why = "max_attempts"
      /\ loc[r].reauths = DefaultMaxAttempts

\* C4: a segment fetch whose every segment request is answered with 403
\* sends at most maxAttempts+1 segment requests and returns failure; started
\* with maxAttempts=0 it sends exactly one and fails at once.  Stated for
\* paths that carry a channel component.
C4_SegmentRetryBound ==
    \A r \in Requests :
      LET l == loc[r]
      IN  (l.kind = "aac" /\ l.seg_channel /= NoSlash) =>
            /\ l.segReqs <= l.seg0 + 1
            /\ (l.pc = "done" /\ l.segStatus = 403) =>
                 /\ l.outcome = "500"
                 /\ l.segReqs = l.seg0 + 1

\* the part of C4 that does not depend on how a nested get_playlist ends: the
\* bound on segment requests, and the immediate failure with maxAttempts=0
SegmentRequestsBounded ==
    \A r \in Requests :
      LET l == loc[r]
      IN  l.kind = "aac" =>
            /\ l.segReqs <= l.seg0 + 1
            /\ l.segReqs + l.seg_attempts <= l.seg0 + 1
            /\ (l.pc = "done" /\ l.seg0 = 0) =>
                 /\ l.segReqs = 1
                 /\ l.outcome \in {"200", "500"}
                 /\ l.segStatus = 403 => l.why = "seg_max_attempts"

\* C5: get()/post() with both continuity cookies present and less than 10
\* minutes since last_auth_time sends its API request at once, with no login
\* and no resume request and the session untouched; with last_auth_time None
\* or 10 minutes or more old (or a continuity cookie missing) it runs
\* authenticate() first.
C5_EnsureIdempotent ==
    [][\A r \in Requests :
         (pc(r) = "ensure" /\ loc'[r].pc /= "ensure") =>
           IF /\ (\A n \in ContinuityCookies : Contains(cookies, n))
              /\ last_auth_time /= Nothing
              /\ now - Get(last_auth_time) < Window
           THEN /\ loc'[r].pc = "api_wait"
                /\ ~loc'[r].auth_ran
                /\ UNCHANGED <<cookies, last_auth_time, auth_file>>
           ELSE /\ loc'[r].pc \in AuthWait
                /\ loc'[r].auth_ran]_vars

C5_Witness ==
    \E r \in Requests :
      /\ pc(r) = "api_wait"
      /\ ~loc[r].auth_ran
      /\ last_auth_time /= Nothing
      /\ now - Get(last_auth_time) > 0
      /\ now - Get(last_auth_time) < Window

\* C6: an auth-required API request is in flight only with both continuity
\* cookies in the jar, whatever last_auth_time says.
C6_CookiesRequired ==
    \A r \in Requests :
      pc(r) = "api_wait" => (\A n \in ContinuityCookies : Contains(cookies, n))

\* a call with a fresh last_auth_time but a continuity cookie missing has
\* been sent to authenticate first
C6_Witness ==
    \E r \in Requests :
      /\ pc(r) \in AuthWait
      /\ loc[r].auth_from = "get"
      /\ last_auth_time /= Nothing
      /\ now - Get(last_auth_time) < Window
      /\ ~((\A n \in ContinuityCookies : Contains(cookies, n)))

\* C7: every failure of the core reaches the stream client as the fixed
\* server-error response: a request never ends in an unhandled error, and a
\* request that hit a failure ends with 500.
C7_FailureSurfaced ==
    \A r \in Requests :
      pc(r) = "done" =>
        /\ loc[r].outcome \in {"200", "500"}
        /\ loc[r].why /= "none" => loc[r].outcome = "500"

\* C8: when authenticate(), called by get()/post() before its request,
\* returns false, the API request is not sent and the call fails: the
\* inbound request has ended without data, and no API request is ever in
\* flight after a failed authenticate().
C8_NoRequestAfterAuthFailure ==
    \A r \in Requests :
      LET l == loc[r]
      IN  /\ l.pc = "api_wait" => l.auth_ok /= "false"
          /\ (l.auth_from = "get" /\ l.auth_ok = "false") =>
               /\ l.pc = "done"
               /\ l.outcome /= "200"
               /\ l.why = "auth_failed"
          /\ (l.pc = "api_wait" /\ l.auth_ran) => l.auth_ok = "true"

C8_Witness ==
    \E r \in Requests :
      /\ pc(r) = "done"
      /\ loc[r].auth_from = "get"
      /\ loc[r].auth_ok = "false"

\* C9: once a login or resume call has failed, the inbound request sends
\* nothing more and ends in failure (the 500 response).
C9_AuthFailureTerminal ==
    \A r \in Requests :
      loc[r].auth_ok = "false" => (pc(r) = "done" /\ loc[r].outcome = "500")

\* the part of C9 that holds: after a failed authenticate() the inbound
\* request has ended, nothing more is sent for it
NothingSentAfterAuthFailure ==
    \A r \in Requests : loc[r].auth_ok = "false" => pc(r) = "done"

\* C10: at most one inbound request is being handled at any time, so at most
\* one login/resume round trip is in flight and no other request touches the
\* session while one is authenticating.
C10_SessionSerialized ==
    /\ Cardinality({r \in Requests : pc(r) \in AuthWait}) <= 1
    /\ \A r, q \in Requests : (r /= q /\ Handled(r)) => Inactive(q)

\* a resume round trip is in flight while another connection waits
C10_Witness ==
    \E r, q \in Requests :
      /\ r /= q
      /\ pc(r) = "resume_wait"
      /\ pc(q) = "queued"

\* the two strings are equal up to the case of their letters
SameIgnoringCase(a, b) == Lower(a) = Lower(b)

\* position of the first TRUE in a sequence of flags from i on, 0 for none
RECURSIVE FirstTrue(_, _)
FirstTrue(flags, i) ==
    IF i > Len(flags) THEN 0
    ELSE IF flags[i] THEN i
    ELSE FirstTrue(flags, i + 1)

PairOf(list, i) ==
    IF i = 0 THEN <<None, None>>
    ELSE <<list[i].channelGuid, list[i].channelId>>

ByName(x, key) == SameIgnoringCase(x.name, key)

ById(x, key) == SameIgnoringCase(x.channelId, key)

ByNumber(x, key) == x.siriusChannelNumber = key

\* the first entry, in directory order, that the key names by any field
InOrder(list, key) ==
    PairOf(list,
           FirstTrue([i \in 1..Len(list) |->
                        \/ ByName(list[i], key)
                        \/ ById(list[i], key)
                        \/ ByNumber(list[i], key)], 1))

\* a match by name before any match by channelId before any by number
ByPrecedence(list, key) ==
    LET n == FirstTrue([i \in 1..Len(list) |-> ByName(list[i], key)], 1)
        c == FirstTrue([i \in 1..Len(list) |-> ById(list[i], key)], 1)
        s == FirstTrue([i \in 1..Len(list) |-> ByNumber(list[i], key)], 1)
    IN  PairOf(list, IF n /= 0 THEN n ELSE IF c /= 0 THEN c ELSE s)

LookedUp(r) == pc(r) = "looked_up"

FetchingDirectory(r) ==
    /\ pc(r) \in {"ensure", "api_wait"} \cup AuthWait
    /\ loc[r].api = "channels"

\* C12: a directory fetch that fails (authentication failure, non-200,
\* undecodable or malformed answer) leaves the catalog cache empty and the
\* lookup ends with the not-found result, so the playlist request is answered
\* with failure (500) instead of ending in an exception; the directory is
\* fetched only while no catalog is cached.
C12_DirectoryFailureNotFound ==
    \A r \in Requests :
      /\ FetchingDirectory(r) => ~ChannelsLoaded(channels)
      /\ ( /\ pc(r) = "done"
           /\ loc[r].kind = "m3u8"
           /\ loc[r].api = "channels"
           /\ loc[r].why \in {"auth_failed", "channels_failed", "no_channel"} )
         => /\ ~ChannelsLoaded(channels)
            /\ loc[r].outcome = "500"

\* what holds of the directory cache: it is fetched only while it is empty,
\* and once a non-empty catalog is cached it stays
DirectoryFetchedWhileEmpty ==
    [][ /\ \A r \in Requests : FetchingDirectory(r) => ~ChannelsLoaded(channels)
        /\ ChannelsLoaded(channels) => channels' = channels ]_vars

\* the (name, value) pairs of a jar
NameValues(ck) == {<<k[2], ck[k]>> : k \in DOMAIN ck}

\* C13: save_auth_state followed by load_auth_state in a new client gives the
\* new client the last_auth_time and the cookie mapping (name to value) of
\* the saved session, for every session state.
C13_RoundTrip ==
    [][ \A r \in Requests :
          (pc(r) = "saved" /\ loc'[r].pc = "loaded")
            => /\ NameValues(cookies') = NameValues(cookies)
               /\ last_auth_time' = last_auth_time ]_vars

\* what holds of the round trip: it reproduces the session whenever
\* dict(self.session.cookies) does not raise, that is with one cookie per
\* name and no empty value
RoundTripOfReadableJar ==
    [][ \A r \in Requests :
          (pc(r) = "saved" /\ loc'[r].pc = "loaded"
                           /\ jar_dict(cookies) /= Nothing)
            => /\ NameValues(cookies') = NameValues(cookies)
               /\ last_auth_time' = last_auth_time ]_vars

\* C14: at every step of save_auth_state a reader of AUTH_FILE_PATH finds no
\* file, the complete record that was there before, or the complete new
\* record, never a partly written file.
C14_AtomicReplace ==
    /\ auth_file = Nothing \/ Complete(Get(auth_file))
    /\ \A r \in Requests :
         pc(r) \in SavePcs \cup {"saved"} =>
           auth_file \in {loc[r].file0,
                          save_auth_state(last_auth_time, cookies,
                                          loc[r].file0)}

\* the temp file is partly written while the previous record is in place
C14_Witness ==
    \E r \in Requests :
      /\ pc(r) = "save_write"
      /\ Len(Get(tmp_file).text) > 0
      /\ ~Complete(Get(tmp_file).text)
      /\ auth_file /= Nothing
      /\ auth_file = loc[r].file0
      /\ auth_file /= save_auth_state(last_auth_time, cookies, Nothing)

LoginFails(r) ==
    pc(r) = "login_wait" /\ loc'[r].pc \notin {"login_wait", "resume_wait"}

\* C16 as the spec states it: a resume request is in flight only with the
\* identity cookie in the jar; when authenticate() starts without it and
\* login() fails, authenticate() returns false, no resume request is sent and
\* the session is left without identity cookie, without continuity cookies
\* and with last_auth_time unchanged.
C16_FailedLoginLeavesUnauthenticated ==
    [][ \A r \in Requests :
          /\ loc'[r].pc = "resume_wait" => is_logged_in(cookies')
          /\ LoginFails(r) =>
               /\ loc'[r].auth_ok = "false"
               /\ ~Contains(cookies', "SXMDATA")
               /\ \A n \in ContinuityCookies : ~Contains(cookies', n)
               /\ last_auth_time' = last_auth_time ]_vars

\* C16, amended: a resume request is in flight only with the identity cookie
\* in the jar; when authenticate() starts without it and login() fails,
\* authenticate() returns false, no resume request is sent, and
\* last_auth_time and the credential file stay as they were; the jar keeps
\* the cookies it had and those the login answer set, so the identity cookie
\* or continuity cookies can be present after the failure.
C16_FailedLoginSendsNoResume ==
    [][ \A r \in Requests :
          /\ loc'[r].pc = "resume_wait" => is_logged_in(cookies')
          /\ LoginFails(r) =>
               /\ ~is_logged_in(cookies)
               /\ loc'[r].auth_ok = "false"
               /\ loc'[r].pc = "done"
               /\ \A k \in DOMAIN cookies :
                    k \in DOMAIN cookies' /\ cookies'[k] = cookies[k]
               /\ last_auth_time' = last_auth_time
               /\ auth_file' = auth_file ]_vars

\* authenticate() has returned false on a failed login whose answer set the
\* identity cookie
C16_Witness ==
    \E r \in Requests :
      /\ pc(r) = "done"
      /\ loc[r].auth_ok = "false"
      /\ loc[r].auth_resp /= Nothing
      /\ Get(loc[r].auth_resp)[1] = "login"
      /\ Contains(cookies, "SXMDATA")

\* authenticate() of connection r gets the answer to its resume request in
\* this step
ResumeAnswered(r) == pc(r) = "resume_wait" /\ loc'[r].pc /= "resume_wait"

\* the answer carries status flag 1 and the jar then holds both continuity
\* cookies
ResumeGood(r) ==
    /\ Get(loc'[r].auth_resp)[2] = "flag1"
    /\ \A n \in ContinuityCookies : Contains(cookies', n)

\* the file holds the given last_auth_time and the (name, value) pairs of
\* the given jar
Persisted(file, lat, ck) ==
    /\ file /= Nothing
    /\ load_auth_state(file).last_auth_time = lat
    /\ NameValues(load_auth_state(file).cookies) = NameValues(ck)

\* C17: authenticate() returns true exactly when the resume answer has status
\* flag 1 and both continuity cookies are present; it then sets
\* last_auth_time to now and overwrites the credential file with the current
\* cookies and that last_auth_time; on every failure (login failed, no data,
\* malformed envelope, other status flag, cookies missing) it returns false
\* and leaves last_auth_time and the credential file unchanged.
C17_AuthenticateEffects ==
    [][ \A r \in Requests :
          /\ ResumeAnswered(r) =>
               IF ResumeGood(r)
               THEN /\ loc'[r].auth_ok = "true"
                    /\ last_auth_time' = Some(now)
                    /\ Persisted(auth_file', last_auth_time', cookies')
               ELSE /\ loc'[r].auth_ok = "false"
                    /\ last_auth_time' = last_auth_time
                    /\ auth_file' = auth_file
          /\ LoginFails(r) =>
               /\ loc'[r].auth_ok = "false"
               /\ last_auth_time' = last_auth_time
               /\ auth_file' = auth_file ]_vars

\* what holds of authenticate(): everything C17 says but the overwriting of
\* the file, which happens only when dict(self.session.cookies) does not raise
AuthenticateEffectsButFile ==
    [][ \A r \in Requests :
          /\ ResumeAnswered(r) =>
               IF ResumeGood(r)
               THEN /\ loc'[r].auth_ok = "true"
                    /\ last_auth_time' = Some(now)
                    /\ IF jar_dict(cookies') /= Nothing
                       THEN Persisted(auth_file', last_auth_time', cookies')
                       ELSE auth_file' = auth_file
               ELSE /\ loc'[r].auth_ok = "false"
                    /\ last_auth_time' = last_auth_time
                    /\ auth_file' = auth_file
          /\ LoginFails(r) =>
               /\ loc'[r].auth_ok = "false"
               /\ last_auth_time' = last_auth_time
               /\ auth_file' = auth_file ]_vars

\* connection r sets last_auth_time to None in this step (lines 267, 331, 360)
ForcesExpiry(r) == loc[r].expired /= "expired" /\ loc'[r].expired = "expired"

\* authenticate() of connection r starts in this step
AuthStarts(r) == pc(r) \notin AuthWait /\ loc'[r].pc \in AuthWait

\* what C18 says up to its last clause: forcing the expiry sets
\* last_auth_time to None and leaves the jar as it is; authenticate() starts
\* with login exactly when the identity cookie is absent; after a forced
\* expiry no API request is in flight before a resume request was answered
ExpiryForcesResume ==
    \A r \in Requests :
      /\ ForcesExpiry(r) => (last_auth_time' = Nothing /\ cookies' = cookies)
      /\ AuthStarts(r) =>
           ((loc'[r].pc = "login_wait") = ~Contains(cookies, "SXMDATA"))
      /\ loc'[r].pc = "api_wait" => loc'[r].expired /= "expired"

\* C18 as the spec states it: forcing the expiry leaves the jar unchanged and
\* the next API call sends a resume request first (after login iff the
\* identity cookie is absent), so every variant-playlist or segment fetch
\* that follows a forced expiry comes after an answered resume request.
C18_RetryAfterResume ==
    [][ /\ ExpiryForcesResume
        /\ \A r \in Requests :
             loc'[r].pc \in {"variant_fetch", "segment_fetch"}
               => loc'[r].expired /= "expired" ]_vars

\* the channel named in the segment path is not in the cached directory
UnlistedSegmentChannel(l) ==
    /\ ChannelsLoaded(channels)
    /\ get_channel(Get(channels), l.seg_channel) = <<None, None>>

\* what the code does keep: every variant-playlist fetch that follows a forced
\* expiry comes after an answered resume request, and so does every segment
\* retry except when the playlist re-resolution of line 361 ended without an
\* API call: the channel named in the segment path is not in the cached
\* directory, and the segment is fetched again with last_auth_time still None
RetryAfterResumeOrUnlisted ==
    [][ /\ ExpiryForcesResume
        /\ \A r \in Requests :
             /\ loc'[r].pc = "variant_fetch" => loc'[r].expired /= "expired"
             /\ (loc'[r].pc = "segment_fetch" /\ loc'[r].expired = "expired")
                  => /\ UnlistedSegmentChannel(loc'[r])
                     /\ last_auth_time' = Nothing ]_vars

\* a segment is fetched again after its 403, the playlist having been
\* re-resolved behind a resume request
SegmentRetriedAfterResume ==
    \E r \in Requests :
      /\ pc(r) = "segment_fetch"
      /\ loc[r].segReqs >= 1
      /\ loc[r].segStatus = 403
      /\ loc[r].expired = "resumed"
      /\ last_auth_time /= Nothing

\* the value of cookie n when the jar holds exactly one, non-empty
OnlyCookie(n) == IF Readable(cookies, n) THEN Some(Cookie(cookies, n)) ELSE Nothing

\* C19: get_sxmak_token and get_gup_id never raise: whatever the SXMAKTOKEN
\* and SXMDATA cookies are (absent, empty, without '=', not JSON, JSON that
\* is not an object, an object without gupId, well formed), each returns
\* the extracted value or None.
C19_ExtractNeverRaises ==
    \A r \in Requests :
      /\ loc[r].token_result /= Nothing
           => Get(loc[r].token_result)[1] = "return"
      /\ loc[r].gup_result /= Nothing
           => Get(loc[r].gup_result)[1] = "return"

\* what the code does keep: get_sxmak_token raises only when the jar holds
\* two SXMAKTOKEN cookies, get_gup_id only when it holds two SXMDATA cookies
\* or the one it holds is JSON that is not an object; a well-formed cookie
\* gives its value
ExtractRaisesOnlyOnConflictOrNonObject ==
    \A r \in Requests :
      /\ loc[r].token_result /= Nothing
           => /\ (Get(loc[r].token_result)[1] = "raise")
                    = Conflict(cookies, "SXMAKTOKEN")
              /\ OnlyCookie("SXMAKTOKEN") = Some("k=tok,rest")
                   => loc[r].token_result = Some(Returned(Some(<<"tok">>)))
      /\ loc[r].gup_result /= Nothing
           => /\ (Get(loc[r].gup_result)[1] = "raise")
                    = \/ Conflict(cookies, "SXMDATA")
                      \/ OnlyCookie("SXMDATA")
                           \in {Some(v) : v \in {"1", "null", "%22s%22",
                                                 "%5B1%5D"}}
              /\ OnlyCookie("SXMDATA") = Some("%7B%22gupId%22%3A%22g%22%7D")
                   => loc[r].gup_result = Some(Returned(Some("g")))

\* connection r's resolution of the variant URL ends in failure in this step
ResolutionFails(r) ==
    /\ \/ pc(r) \in {"get_playlist_url", "master_fetch"}
       \/ pc(r) = "api_wait" /\ loc[r].api = "nowplaying"
    /\ loc'[r].outcome = "exception"

\* an entry that exists is replaced in this step only by a resolution that
\* was started with use_cache = False
ReplacedOnlyWithoutCache ==
    \A c \in ChannelIds :
      (playlists[c] /= Absent /\ playlists'[c] /= playlists[c])
        => \E r \in Requests :
             /\ pc(r) = "master_fetch"
             /\ loc[r].channel_id = c
             /\ ~loc[r].use_cache

\* C20: every entry of the playlist cache is a resolved variant URL: a
\* resolution that fails (master playlist not 200 or without .m3u8 line, no
\* LARGE variant, fatal code, attempts exhausted) stores no entry, a lookup
\* with use_cache = True never returns a failure from the cache, and an
\* entry is replaced only by a resolution with use_cache = False.
C20_CacheHoldsResolvedUrls ==
    [][ /\ \A c \in ChannelIds : playlists'[c] /= None
        /\ \A r \in Requests :
             /\ ResolutionFails(r) => playlists' = playlists
             /\ loc'[r].why /= "cached_none"
        /\ ReplacedOnlyWithoutCache ]_vars

\* what the code does keep: only a failed master-playlist fetch stores a
\* failure (line 290 stores what get_playlist_variant_url returned); every
\* other failed resolution leaves the cache alone, a failure is returned
\* from the cache only where one was stored, and an entry is replaced only
\* by a resolution with use_cache = False
CacheFailureOnlyFromMasterFetch ==
    [][ /\ \A r \in Requests :
             /\ (ResolutionFails(r) /\ loc'[r].why /= "master_failed")
                  => playlists' = playlists
             /\ (ResolutionFails(r) /\ loc'[r].why = "master_failed")
                  => playlists'[loc[r].channel_id] = None
             /\ (loc'[r].why = "cached_none" /\ loc[r].why /= "cached_none")
                  => playlists[loc[r].channel_id] = None
        /\ \A c \in ChannelIds :
             (playlists'[c] = None /\ playlists[c] /= None)
               => \E r \in Requests : ResolutionFails(r)
                                      /\ loc'[r].why = "master_failed"
        /\ ReplacedOnlyWithoutCache ]_vars

\* the last_auth_time of the record at AUTH_FILE_PATH equals the one in memory
FileTimeIs(file, lat) ==
    file /= Nothing /\ load_auth_state(file).last_auth_time = lat

\* C21: after startup the last_auth_time in memory is None or equal to the
\* last_auth_time of the credential file: startup and a successful
\* authenticate() keep the two equal, and forcing the expiry clears only the
\* value in memory and leaves the file as it is.
C21_MemoryTimeIsFileTime ==
    /\ (last_auth_time = Nothing \/ FileTimeIs(auth_file, last_auth_time))
    /\ [][ /\ (last_auth_time' = Nothing
                 \/ FileTimeIs(auth_file', last_auth_time'))
           /\ \A r \in Requests :
                ForcesExpiry(r) => (last_auth_time' = Nothing
                                    /\ auth_file' = auth_file) ]_vars

\* what the code does keep: the two differ only while the jar cannot be
\* turned into a dict, so that save_auth_state wrote nothing; forcing the
\* expiry leaves the file as it is
MemoryTimeIsFileTimeUnlessUnsaved ==
    /\ (last_auth_time = Nothing \/ FileTimeIs(auth_file, last_auth_time))
    /\ [][ /\ (\/ last_auth_time' = Nothing
               \/ FileTimeIs(auth_file', last_auth_time')
               \/ jar_dict(cookies') = Nothing)
           /\ \A r \in Requests :
                ForcesExpiry(r) => (last_auth_time' = Nothing
                                    /\ auth_file' = auth_file) ]_vars

=============================================================================
